---- MODULE Spec2Model ----
(***************************************************************************)
(* One-factor LIBOR Market Model, Monte Carlo simulation                   *)
(* (forward_rate_models/Libor_Market_Model.ipynb,                          *)
(* one_factor_LIBOR_Market_Model and the demo cell that calls it).         *)
(*                                                                         *)
(* The function is modelled as a sequential process: pc is its position,   *)
(* the other variables are its arguments and locals.  Numbers are binary   *)
(* floating-point values as numpy computes them (round to nearest, ties to *)
(* even, gradual underflow, overflow to infinity, NaN), at a reduced       *)
(* format: MantBits significand bits, smallest step 2^-FracBits, largest   *)
(* exponent ExpMax.  A finite value x is held as the integer x*2^FracBits. *)
(***************************************************************************)
EXTENDS Integers, Sequences, FiniteSets, TLC

\* ---------------------------------------------------------------- bounds
MantBits == 4
FracBits == 6
ExpMax == 9
MaxLen == 5
MaxN == 4
MaxWork == 6

\* ------------------------------------------------- floating-point values
RECURSIVE Pow2(_)
Pow2(e) == IF e <= 0 THEN 1 ELSE 2 * Pow2(e - 1)

Unit == Pow2(FracBits)
MaxFin == (Pow2(MantBits) - 1) * Pow2(ExpMax)

Fin(x) == [c |-> "fin", v |-> x]
NaN == [c |-> "nan", v |-> 0]
PInf == [c |-> "pinf", v |-> 0]
NInf == [c |-> "ninf", v |-> 0]

IsFin(a) == a.c = "fin"
Abs(x) == IF x < 0 THEN -x ELSE x
Sign(a) == IF a.c = "pinf" THEN 1
           ELSE IF a.c = "ninf" THEN -1
           ELSE IF a.v > 0 THEN 1 ELSE IF a.v < 0 THEN -1 ELSE 0
Signed(s) == IF s > 0 THEN PInf ELSE NInf

\* The quantum of a magnitude a/den: the least power of two q with
\* a/den < 2^MantBits * q (q = 1 in the subnormal and first normal range).
RECURSIVE Quantum(_, _, _)
Quantum(a, den, e) ==
    IF e > ExpMax \/ a < Pow2(MantBits + e) * den THEN Pow2(e)
    ELSE Quantum(a, den, e + 1)

\* num/den (den > 0, in units of 2^-FracBits) rounded to the format.
Rnd(num, den) ==
    LET a == Abs(num)
        q == Quantum(a, den, 0)
        m0 == a \div (den * q)
        rem == a - m0 * den * q
        m == IF 2 * rem > den * q \/ (2 * rem = den * q /\ m0 % 2 = 1)
             THEN m0 + 1 ELSE m0
        mag == m * q
    IN  IF mag > MaxFin THEN Signed(IF num < 0 THEN -1 ELSE 1)
        ELSE Fin(IF num < 0 THEN -mag ELSE mag)

\* The value n/d of a literal or of a Python int.
R(num, den) == Rnd(num * Unit, den)

FNeg(a) == IF a.c = "fin" THEN Fin(-a.v)
           ELSE IF a.c = "pinf" THEN NInf
           ELSE IF a.c = "ninf" THEN PInf ELSE NaN

FAdd(a, b) ==
    IF a.c = "nan" \/ b.c = "nan" THEN NaN
    ELSE IF IsFin(a) /\ IsFin(b) THEN Rnd(a.v + b.v, 1)
    ELSE IF IsFin(a) THEN b
    ELSE IF IsFin(b) THEN a
    ELSE IF a = b THEN a ELSE NaN

FSub(a, b) == FAdd(a, FNeg(b))

FMul(a, b) ==
    IF a.c = "nan" \/ b.c = "nan" THEN NaN
    ELSE IF IsFin(a) /\ IsFin(b) THEN Rnd(a.v * b.v, Unit)
    ELSE IF Sign(a) = 0 \/ Sign(b) = 0 THEN NaN
    ELSE Signed(Sign(a) * Sign(b))

\* numpy division: x/0 is +-inf, 0/0 is nan (a RuntimeWarning, no exception).
FDiv(a, b) ==
    IF a.c = "nan" \/ b.c = "nan" THEN NaN
    ELSE IF IsFin(a) /\ IsFin(b) THEN
        IF b.v = 0 THEN (IF a.v = 0 THEN NaN ELSE Signed(a.v))
        ELSE Rnd((IF b.v < 0 THEN -a.v ELSE a.v) * Unit, Abs(b.v))
    ELSE IF IsFin(a) THEN Fin(0)
    ELSE IF IsFin(b) THEN Signed(Sign(a) * (IF b.v < 0 THEN -1 ELSE 1))
    ELSE NaN

\* x ** p for a non-negative int p.
RECURSIVE FPow(_, _)
FPow(a, p) == IF p <= 0 THEN Fin(Unit) ELSE FMul(FPow(a, p - 1), a)

\* a <= 0 as numpy compares: false for nan.
LeqZero(a) == a.c = "ninf" \/ (a.c = "fin" /\ a.v <= 0)

\* np.sqrt: nan for a negative argument; otherwise the nearest integer number
\* of units to the root, rounded to the format (exact on exact squares).
SqrtF(a) ==
    IF a.c = "nan" \/ a.c = "ninf" THEN NaN
    ELSE IF a.c = "pinf" THEN PInf
    ELSE IF a.v < 0 THEN NaN
    ELSE LET x == a.v * Unit
             r == CHOOSE y \in 0..(a.v + Unit) : y * y <= x /\ x < (y + 1) * (y + 1)
         IN  Rnd(IF x - r * r > r THEN r + 1 ELSE r, 1)

\* np.exp: exact at 0 and at the special values, positive and increasing
\* elsewhere (the series 1 + x + x^2/2 for x > 0, its reciprocal for x < 0).
\* No property below depends on the value at a nonzero finite argument.
ExpPos(x) == FAdd(FAdd(Fin(Unit), Fin(x)), Rnd(x * x, 2 * Unit))
ExpF(a) ==
    IF a.c = "nan" THEN NaN
    ELSE IF a.c = "pinf" THEN PInf
    ELSE IF a.c = "ninf" THEN Fin(0)
    ELSE IF a.v = 0 THEN Fin(Unit)
    ELSE IF a.v > 0 THEN ExpPos(a.v)
    ELSE FDiv(Fin(Unit), ExpPos(-a.v))

\* int(x) of a finite float: truncation toward zero.
Trunc(a) == IF a.v < 0 THEN -((-a.v) \div Unit) ELSE a.v \div Unit

\* ---------------------------------------------------------------- inputs
\* time_step and maturity of the call (the demo cell uses 0.25 and
\* len(zero_curve) * time_step); zero rates, volatilities and normal draws.
TimeSteps == {R(-1, 4), R(0, 1), R(1, 4)}
Maturities == {R(h, 4) : h \in -2..(MaxLen + 1)} \cup {R(3, 8)}
ZeroRates == {R(-1, 1), R(0, 1), R(3, 4)}
Vols == {R(0, 1), R(1, 2)}
Draws == {R(-2, 1), R(2, 1)}

VARIABLES
    time_step, maturity, N,            \* scalar arguments
    len_zero_curve, len_volatilities,  \* len() of the two array arguments
    zero_curve,                        \* entries 0..steps-1 of zero_curve
    forward_rate_volatilities,         \* entries 0..steps-3 of the volatilities
    pc, err,                           \* position in the function, exception raised
    steps, t, Delta, B_0,
    forward_rate_from_zero, forward_rate_mc, forward_rate,
    n, k, j,                           \* loop variables of lines 101, 105, 106
    result,                            \* the returned matrix
    draws,                             \* standard-normal draws consumed so far
    written,                           \* cells of forward_rate assigned in this path
    order,                             \* cells written by updates in this path, in order
    lastWrite, lastReads, lastBefore,  \* the last update: its target, the cells its
                                       \* drift sum read, `written` as it began
    accesses,                          \* index accesses of the last step
    domainHit                          \* a drift term had 1 + Delta*F <= 0

vars == <<time_step, maturity, N, len_zero_curve, len_volatilities, zero_curve,
          forward_rate_volatilities, pc, err, steps, t, Delta, B_0,
          forward_rate_from_zero, forward_rate_mc, forward_rate, n, k, j, result,
          draws, written, order, lastWrite, lastReads, lastBefore, accesses,
          domainHit>>

inputs == <<time_step, maturity, N, len_zero_curve, len_volatilities>>
arrays == <<zero_curve, forward_rate_volatilities>>
grid == <<t, Delta, B_0>>
path == <<forward_rate, k, j>>
ghost == <<written, order, lastWrite, lastReads, lastBefore, domainHit>>

\* ------------------------------------------------------------- helpers
Empty == [x \in {} |-> NaN]
Zeros(d) == [a \in 0..(d - 1) |-> [b \in 0..(d - 1) |-> Fin(0)]]
NoCell == <<-1, -1>>

\* steps = int(maturity / time_step) + 1                          (line 71)
StepsOf(m, ts) == Trunc(FDiv(m, ts)) + 1

\* Loop iterations of one path: (s-1)(s-2)/2 updates for s steps.
NumUpdates(s) == IF s <= 2 THEN 0 ELSE ((s - 1) * (s - 2)) \div 2

\* arr[i]; out of its domain only under a faulty index, which `accesses` shows.
At(arr, i) == IF i \in DOMAIN arr THEN arr[i] ELSE Fin(0)
Cell(F, a, b) == IF a \in DOMAIN F /\ b \in DOMAIN F THEN F[a][b] ELSE Fin(0)

\* The offset k-j-1 (and i-j-1) into the volatility vector     (lines 110, 114)
VolIndexOffByOne(hi, lo) == hi - lo - 2
VolIndex(hi, lo) == hi - lo - 1

\* range(j + 1, k + 1), the tenors of the drift sum                 (line 108)
DriftRangePastTenor(kk, jj) == (jj + 1)..(kk + 1)
DriftRange(kk, jj) == (jj + 1)..kk

\* for k in range(1, steps - 1): for j in range(k)            (lines 105-106)
FirstIter == <<1, 0>>
NextIterSkipsFirstStep(kk, jj) == IF jj + 1 < kk THEN <<kk, jj + 1>> ELSE <<kk + 1, 1>>
NextIter(kk, jj) == IF jj + 1 < kk THEN <<kk, jj + 1>> ELSE <<kk + 1, 0>>

\* The cell assigned by an update, forward_rate[k][j + 1]            (line 113)
TargetSameColumn(kk, jj) == <<kk, jj>>
Target(kk, jj) == <<kk, jj + 1>>

\* The two length checks                                        (lines 74, 76)
ZeroCurveTooShort == len_zero_curve < steps
VolatilitiesTooShortOffByOne == len_volatilities < steps - 2
VolatilitiesTooShort == len_volatilities < steps - 1

\* One term of the drift sum and the sum itself                (lines 107-111)
DriftTerm(F, i, kk, jj) ==
    FDiv(FMul(FMul(FMul(At(Delta, i), Cell(F, i, jj)),
                   At(forward_rate_volatilities, VolIndex(i, jj))),
              At(forward_rate_volatilities, VolIndex(kk, jj))),
         FAdd(Fin(Unit), FMul(At(Delta, i), Cell(F, i, jj))))

RECURSIVE SumTerms(_, _, _, _, _)
SumTerms(F, kk, jj, S, acc) ==
    IF S = {} THEN acc
    ELSE LET i == CHOOSE x \in S : \A y \in S : x <= y
         IN  SumTerms(F, kk, jj, S \ {i}, FAdd(acc, DriftTerm(F, i, kk, jj)))

Sum1(F, kk, jj) == SumTerms(F, kk, jj, DriftRange(kk, jj), Fin(0))

\* forward_rate[k][j] * exp((sum1 - vol^2/2)*Delta[j] + vol*e*sqrt(Delta[j]))
\*                                                              (lines 113-115)
Evolve(F, kk, jj, e) ==
    LET vol == At(forward_rate_volatilities, VolIndex(kk, jj))
        x == FAdd(FMul(FSub(Sum1(F, kk, jj), FDiv(FPow(vol, 2), R(2, 1))),
                       At(Delta, jj)),
                  FMul(FMul(vol, e), SqrtF(At(Delta, jj))))
    IN  FMul(Cell(F, kk, jj), ExpF(x))

\* The compounding term 1 + Delta[i]*F[i][j] of a drift term is <= 0.
BadBase(F, i, jj) == LeqZero(FAdd(Fin(Unit), FMul(At(Delta, i), Cell(F, i, jj))))

\* Index accesses of one update: array, index, length of the axis.
Acc(a, i, len) == [a |-> a, i |-> i, len |-> len]
UpdateAccesses(kk, jj) ==
    {Acc("forward_rate_volatilities", VolIndex(kk, jj), len_volatilities),
     Acc("Delta", jj, steps - 1),
     Acc("forward_rate.row", kk, steps - 1),
     Acc("forward_rate.col", jj, steps - 1),
     Acc("forward_rate.row", Target(kk, jj)[1], steps - 1),
     Acc("forward_rate.col", Target(kk, jj)[2], steps - 1)}
    \cup UNION {{Acc("forward_rate_volatilities", VolIndex(i, jj), len_volatilities),
                 Acc("Delta", i, steps - 1),
                 Acc("forward_rate.row", i, steps - 1)} : i \in DriftRange(kk, jj)}

\* ------------------------------------------------------------------ Init
\* The call: any arguments within the bounds.  MaxWork bounds the updates of a
\* run, N * (steps-1)(steps-2)/2.
Init ==
    /\ time_step \in TimeSteps
    /\ maturity \in Maturities
    /\ N \in -1..MaxN
    /\ len_zero_curve \in 0..MaxLen
    /\ len_volatilities \in (len_zero_curve - 2)..(len_zero_curve - 1)
    /\ len_volatilities >= 0
    /\ time_step.v # 0 => N * NumUpdates(StepsOf(maturity, time_step)) <= MaxWork
    /\ zero_curve = Empty
    /\ forward_rate_volatilities = Empty
    /\ pc = "call"
    /\ err = "none"
    /\ steps = 0
    /\ t = Empty /\ Delta = Empty /\ B_0 = Empty
    /\ forward_rate_from_zero = Empty
    /\ forward_rate_mc = Empty
    /\ forward_rate = Empty
    /\ n = 0 /\ k = 0 /\ j = 0
    /\ result = Empty
    /\ draws = 0
    /\ written = {} /\ order = <<>>
    /\ lastWrite = NoCell /\ lastReads = {} /\ lastBefore = {}
    /\ accesses = {}
    /\ domainHit = FALSE

Raise(e) ==
    /\ pc' = "raised"
    /\ err' = e
    /\ UNCHANGED <<inputs, arrays, steps, grid, forward_rate_from_zero,
                   forward_rate_mc, path, n, result, draws, ghost, accesses>>

\* ---------------------------------------------------------------- steps
\* line 71, time_step == 0: float division by zero.
RaiseZeroDivision ==
    /\ pc = "call"
    /\ time_step.v = 0
    /\ Raise("ZeroDivisionError")

\* line 71
ComputeSteps ==
    /\ pc = "call"
    /\ time_step.v # 0
    /\ steps' = StepsOf(maturity, time_step)
    /\ pc' = "validate"
    /\ UNCHANGED <<inputs, arrays, err, grid, forward_rate_from_zero,
                   forward_rate_mc, path, n, result, draws, ghost, accesses>>

\* lines 74-75
RaiseZeroCurveLength ==
    /\ pc = "validate"
    /\ ZeroCurveTooShort
    /\ Raise("ValueError: zero_curve")

\* lines 76-77
RaiseVolatilityLength ==
    /\ pc = "validate"
    /\ ~ZeroCurveTooShort
    /\ VolatilitiesTooShort
    /\ Raise("ValueError: forward_rate_volatilities")

\* Both checks pass.  The entries of the two arrays that the run reads
\* (zero_curve[0..steps-1], volatilities[0..steps-3]) are fixed here.
PassValidation ==
    /\ pc = "validate"
    /\ ~ZeroCurveTooShort
    /\ ~VolatilitiesTooShort
    /\ zero_curve' \in [0..(steps - 1) -> ZeroRates]
    /\ forward_rate_volatilities' \in [0..(steps - 3) -> Vols]
    /\ pc' = "grid"
    /\ UNCHANGED <<inputs, err, steps, grid, forward_rate_from_zero,
                   forward_rate_mc, path, n, result, draws, ghost, accesses>>

\* lines 80, 87 with steps <= 0: np.zeros(steps) or np.full(steps - 1, ...)
\* is asked for a negative size.
RaiseNegativeDimensions ==
    /\ pc = "grid"
    /\ steps <= 0
    /\ Raise("ValueError: negative dimensions")

RECURSIVE TimeAt(_)
TimeAt(i) == IF i <= 0 THEN Fin(0) ELSE FAdd(TimeAt(i - 1), time_step)

\* lines 80-87
BuildGrid ==
    /\ pc = "grid"
    /\ steps >= 1
    /\ t' = [i \in 0..(steps - 1) |-> TimeAt(i)]
    /\ Delta' = [i \in 0..(steps - 2) |-> time_step]
    /\ pc' = "bonds"
    /\ UNCHANGED <<inputs, arrays, err, steps, B_0, forward_rate_from_zero,
                   forward_rate_mc, path, n, result, draws, ghost, accesses>>

\* B_0[i] = 1 / (1 + zero_curve[i]) ** (i + 1)                      (line 92)
BondPrice(i) == FDiv(Fin(Unit), FPow(FAdd(Fin(Unit), At(zero_curve, i)), i + 1))

\* lines 90-92
BondPrices ==
    /\ pc = "bonds"
    /\ B_0' = [i \in 0..(steps - 1) |-> BondPrice(i)]
    /\ accesses' = {Acc("zero_curve", i, len_zero_curve) : i \in 0..(steps - 1)}
    /\ pc' = "forwards"
    /\ UNCHANGED <<inputs, arrays, err, steps, t, Delta, forward_rate_from_zero,
                   forward_rate_mc, path, n, result, draws, ghost>>

\* (1 / Delta[i]) * (B_0[i] / B_0[i + 1] - 1)                       (line 97)
InitialForward(i) ==
    FMul(FDiv(Fin(Unit), At(Delta, i)),
         FSub(FDiv(At(B_0, i), At(B_0, i + 1)), Fin(Unit)))

\* lines 95-100
InitialForwards ==
    /\ pc = "forwards"
    /\ forward_rate_from_zero' =
          [a \in 0..(steps - 2) |->
              [b \in 0..(steps - 2) |-> IF b = 0 THEN InitialForward(a) ELSE Fin(0)]]
    /\ forward_rate_mc' = Zeros(steps - 1)
    /\ n' = 0
    /\ pc' = "loop"
    /\ UNCHANGED <<inputs, arrays, err, steps, grid, path, result, draws, ghost,
                   accesses>>

\* lines 101-104: the next path starts from the initial column.
StartPath ==
    /\ pc = "loop"
    /\ n < N
    /\ forward_rate' =
          [a \in 0..(steps - 2) |->
              [b \in 0..(steps - 2) |->
                  IF b = 0 THEN forward_rate_from_zero[a][0] ELSE Fin(0)]]
    /\ written' = {<<a, 0>> : a \in 0..(steps - 2)}
    /\ order' = <<>>
    /\ lastWrite' = NoCell /\ lastReads' = {} /\ lastBefore' = {}
    /\ k' = FirstIter[1] /\ j' = FirstIter[2]
    /\ pc' = IF FirstIter[1] < steps - 1 THEN "update" ELSE "accumulate"
    /\ UNCHANGED <<inputs, arrays, err, steps, grid, forward_rate_from_zero,
                   forward_rate_mc, n, result, draws, accesses, domainHit>>

\* lines 107-115: one iteration of the inner loop, with the draw e.
Update(e) ==
    /\ pc = "update"
    /\ forward_rate' = [forward_rate EXCEPT
                           ![Target(k, j)[1]][Target(k, j)[2]] =
                               Evolve(forward_rate, k, j, e)]
    /\ draws' = draws + 1
    /\ lastBefore' = written
    /\ lastReads' = {<<i, j>> : i \in DriftRange(k, j)}
    /\ lastWrite' = Target(k, j)
    /\ written' = written \cup {Target(k, j)}
    /\ order' = Append(order, Target(k, j))
    /\ accesses' = UpdateAccesses(k, j)
    /\ domainHit' = (domainHit \/ \E i \in DriftRange(k, j) : BadBase(forward_rate, i, j))
    /\ k' = NextIter(k, j)[1]
    /\ j' = NextIter(k, j)[2]
    /\ pc' = IF NextIter(k, j)[1] < steps - 1 THEN "update" ELSE "accumulate"
    /\ UNCHANGED <<inputs, arrays, err, steps, grid, forward_rate_from_zero,
                   forward_rate_mc, n, result>>

\* line 116
Accumulate ==
    /\ pc = "accumulate"
    /\ forward_rate_mc' =
          [a \in 0..(steps - 2) |->
              [b \in 0..(steps - 2) |-> FAdd(forward_rate_mc[a][b], forward_rate[a][b])]]
    /\ n' = n + 1
    /\ pc' = "loop"
    /\ UNCHANGED <<inputs, arrays, err, steps, grid, forward_rate_from_zero, path,
                   result, draws, ghost, accesses>>

\* lines 119-120: after the last path, divide by N and return.
Average ==
    /\ pc = "loop"
    /\ ~(n < N)
    /\ result' =
          [a \in 0..(steps - 2) |->
              [b \in 0..(steps - 2) |-> FDiv(forward_rate_mc[a][b], R(N, 1))]]
    /\ pc' = "returned"
    /\ UNCHANGED <<inputs, arrays, err, steps, grid, forward_rate_from_zero,
                   forward_rate_mc, path, n, draws, ghost, accesses>>

Next ==
    \/ RaiseZeroDivision
    \/ ComputeSteps
    \/ RaiseZeroCurveLength
    \/ RaiseVolatilityLength
    \/ PassValidation
    \/ RaiseNegativeDimensions
    \/ BuildGrid
    \/ BondPrices
    \/ InitialForwards
    \/ StartPath
    \/ \E e \in Draws : Update(e)
    \/ Accumulate
    \/ Average

Spec == Init /\ [][Next]_vars

\* ------------------------------------------------------------ properties
Tenors == 0..(steps - 2)
InPath == pc \in {"update", "accumulate"}
PastValidation == pc \notin {"call", "validate"} /\ err # "ZeroDivisionError"
LengthErrors == {"ValueError: zero_curve", "ValueError: forward_rate_volatilities"}
PositiveHorizon == time_step.v > 0 /\ maturity.v > 0
AllVolatilitiesZero ==
    \A i \in DOMAIN forward_rate_volatilities : forward_rate_volatilities[i] = Fin(0)

\* x added c times to 0, as the accumulator of line 116 adds it.
RECURSIVE RepSum(_, _)
RepSum(x, c) == IF c <= 0 THEN Fin(0) ELSE FAdd(RepSum(x, c - 1), x)

\* C1 (as claimed): for N >= 1 (and a positive time_step and maturity) every
\* entry F[k][0] of the returned matrix equals the deterministic initial
\* forward rate of tenor k.
C1_AveragedColumnExact ==
    (pc = "returned" /\ N >= 1 /\ PositiveHorizon) =>
        \A a \in Tenors : result[a][0] = forward_rate_from_zero[a][0]

\* C1 (amended): in every path column 0 of the path matrix is the initial
\* forward rate (1/Delta[k])*(B_0[k]/B_0[k+1] - 1), whatever N and the draws;
\* the accumulator holds it added n times, and the returned F[k][0] is that
\* floating-point sum of N copies divided by N: independent of the draws, and
\* equal to the initial rate itself when N = 1.
C1_InitialColumnPathInvariant ==
    /\ InPath => \A a \in Tenors : forward_rate[a][0] = InitialForward(a)
    /\ pc \in {"loop", "update", "accumulate", "returned"} =>
          \A a \in Tenors : forward_rate_mc[a][0] = RepSum(InitialForward(a), n)
    /\ (pc = "returned" /\ N >= 1) =>
          \A a \in Tenors :
              result[a][0] = FDiv(RepSum(InitialForward(a), N), R(N, 1))
    /\ (pc = "returned" /\ N = 1) =>
          \A a \in Tenors : result[a][0] = InitialForward(a)

\* C1 witness: a run of several paths with nonzero volatility has returned and
\* its averaged column 0 differs from the initial rate by rounding only.
C1_Witness ==
    /\ pc = "returned" /\ N >= 3 /\ draws >= N /\ PositiveHorizon
    /\ ~AllVolatilitiesZero
    /\ \E a \in Tenors :
          /\ IsFin(result[a][0]) /\ IsFin(forward_rate_from_zero[a][0])
          /\ result[a][0] # forward_rate_from_zero[a][0]

\* C2: with every volatility 0, for N >= 1 every returned entry F[k][j],
\* j <= k, equals F[k][0] (stated for a positive time_step and maturity and
\* finite initial forward rates).
C2_ZeroVolatilityConstant ==
    (/\ pc = "returned" /\ N >= 1 /\ PositiveHorizon /\ AllVolatilitiesZero
     /\ \A a \in Tenors : IsFin(forward_rate_from_zero[a][0])) =>
        \A a \in Tenors : \A b \in 0..a : result[a][b] = result[a][0]

\* C3: once past the length checks with len(zero_curve) < steps or
\* len(volatilities) < steps - 1, the call has failed with the input-length
\* error, and no grid, discount factor, accumulator, path, draw or result exists.
C3_ShortInputFailsFast ==
    (PastValidation /\ (len_zero_curve < steps \/ len_volatilities < steps - 1)) =>
        /\ pc = "raised" /\ err \in LengthErrors
        /\ t = Empty /\ Delta = Empty /\ B_0 = Empty
        /\ forward_rate_from_zero = Empty /\ forward_rate_mc = Empty
        /\ forward_rate = Empty /\ result = Empty
        /\ draws = 0

\* C3 witness: a call with enough zero rates and too few volatilities has
\* raised the volatility-length error.
C3_Witness ==
    /\ pc = "raised" /\ err = "ValueError: forward_rate_volatilities"
    /\ len_zero_curve >= steps /\ len_volatilities < steps - 1 /\ N >= 1

\* C4: a call with N <= 0 (and otherwise valid arguments) never returns a
\* matrix.
C4_NonPositiveNRejected == (N <= 0 /\ PositiveHorizon) => pc # "returned"

\* C5: a call with time_step <= 0 or maturity <= 0 never builds the grid,
\* never runs with steps <= 1 and never returns a matrix.
C5_NonPositiveHorizonRejected ==
    (time_step.v <= 0 \/ maturity.v <= 0) =>
        pc \notin {"bonds", "forwards", "loop", "update", "accumulate", "returned"}

\* C6: once a drift term has read a rate with 1 + Delta[i]*F[i][j] <= 0, the
\* path is never accumulated and no averaged matrix is returned (stated for a
\* positive time_step and maturity).
C6_NonPositiveBaseAborts ==
    (domainHit /\ PositiveHorizon) => pc \notin {"loop", "returned"}

\* C7: within a path F is written only at cells (k, j') with j' <= k, never
\* twice; every cell (i, j) the drift sum reads for F[k][j+1] has
\* j+1 <= i <= k and was assigned before the read (so holds its final value).
C7_ReadsAreFinal ==
    /\ \A c \in written : c[2] <= c[1]
    /\ lastWrite # NoCell =>
          /\ lastWrite \notin lastBefore
          /\ \A c \in lastReads :
                /\ c[2] = lastWrite[2] - 1
                /\ lastWrite[2] <= c[1] /\ c[1] <= lastWrite[1]
                /\ c \in lastBefore

\* C7 witness: an update at simulation step j >= 1 whose drift sum read the
\* cells of two tenors.
C7_Witness ==
    /\ lastWrite # NoCell /\ lastWrite[2] >= 2 /\ Cardinality(lastReads) >= 2

\* C8 (as claimed): when a cell of column j+1 is computed, every cell of
\* column j for the tenors >= j+1 has been computed.
C8_ColumnBeforeNextColumn ==
    lastWrite # NoCell =>
        \A i \in lastWrite[2]..(steps - 2) : <<i, lastWrite[2] - 1>> \in lastBefore

\* C8 (amended): the updates of a path run tenor by tenor (k ascending, j
\* ascending within k); when cell (k, j+1) is computed the cells of column j
\* for the tenors j+1..k have been computed, those of higher tenors have not.
C8_TenorMajorOrder ==
    /\ \A p \in 1..Len(order) : \A q \in (p + 1)..Len(order) :
          \/ order[p][1] < order[q][1]
          \/ order[p][1] = order[q][1] /\ order[p][2] < order[q][2]
    /\ \A p \in 1..Len(order) :
          /\ \A i \in order[p][2]..order[p][1] :
                \/ order[p][2] = 1
                \/ \E q \in 1..(p - 1) : order[q] = <<i, order[p][2] - 1>>
          /\ \A i \in (order[p][1] + 1)..(steps - 2) :
                \A q \in 1..p : order[q][1] # i

\* C8 witness: column 2 of tenor 2 is computed while column 1 of tenor 3 is not.
C8_Witness ==
    /\ InPath /\ <<2, 2>> \in written /\ <<3, 1>> \notin written /\ steps >= 5

\* C9: every index used by the discount-factor loop and by an update lies in
\* [0, length of its axis - 1].
C9_IndicesInRange == \A x \in accesses : 0 <= x.i /\ x.i < x.len

\* C9 witness: an update of the last tenor that used the largest volatility
\* offset, steps - 3 >= 1, with exactly steps - 1 volatilities supplied.
C9_Witness ==
    /\ len_volatilities = steps - 1
    /\ \E x \in accesses :
          x.a = "forward_rate_volatilities" /\ x.i = steps - 3 /\ x.i >= 1
    /\ \E x \in accesses : x.a = "forward_rate.row" /\ x.i = steps - 2

\* C10: a call shaped like the demo cell's, maturity = len(zero_curve) *
\* time_step with one volatility fewer than zero rates, raises no error.
DemoShaped ==
    /\ time_step.v > 0
    /\ len_zero_curve >= 1
    /\ maturity = FMul(R(len_zero_curve, 1), time_step)
    /\ len_volatilities = len_zero_curve - 1
C10_DemoCallPassesValidation == DemoShaped => pc # "raised"

====
